---- MODULE Spec2Model ----
(***************************************************************************)
(* The constellation link simulator of OrbLink: simulation.py driving      *)
(* constellations.py (Satellite, GroundStation) and link_budget.py, and    *)
(* the metrics aggregation calculate_coverage_metrics.                     *)
(*                                                                         *)
(* Numbers.  The program computes in IEEE doubles.  Here a float is a      *)
(* record [k, v]: k = "fin" with an integer v, or one of the special       *)
(* values -inf, +inf, NaN.  Lengths are whole kilometres (a distance_m is  *)
(* 1000 times a whole number of km), angles are whole multiples of 15      *)
(* degrees, decibel quantities are whole dB (the floor of the logarithm),  *)
(* latencies are in units of 0.01 ms, a mean is the exact fraction         *)
(* [num, den].                                                             *)
(***************************************************************************)
EXTENDS Integers, Sequences, FiniteSets, TLC

\* ------------------------------------------------------------------ bounds
MaxSats == 3
MaxStations == 3
MaxSteps == 2
MaxRows == 5

\* ------------------------------------------------------- IEEE double values
Fin(n) == [k |-> "fin", v |-> n]
NegInf == [k |-> "ninf", v |-> 0]
PosInf == [k |-> "pinf", v |-> 0]
NaN == [k |-> "nan", v |-> 0]
None == [k |-> "none", v |-> 0]
Some(x) == [k |-> "some", v |-> x]
Frac(n, d) == [k |-> "frac", num |-> n, den |-> d]

IsFin(a) == a.k = "fin"
IsNaN(a) == a.k = "nan"
IsNone(a) == a.k = "none"

\* a > b on doubles: false as soon as one side is NaN
FGt(a, b) ==
    CASE a.k = "nan" \/ b.k = "nan" -> FALSE
      [] a.k = "pinf" -> b.k # "pinf"
      [] a.k = "ninf" -> FALSE
      [] b.k = "pinf" -> FALSE
      [] b.k = "ninf" -> TRUE
      [] OTHER -> a.v > b.v

\* a >= b on doubles: false as soon as one side is NaN
FGe(a, b) ==
    CASE a.k = "nan" \/ b.k = "nan" -> FALSE
      [] a.k = b.k /\ a.k # "fin" -> TRUE
      [] OTHER -> FGt(a, b) \/ (a.k = "fin" /\ b.k = "fin" /\ a.v = b.v)

\* a + b on doubles (+inf + -inf = NaN)
FAdd(a, b) ==
    CASE a.k = "nan" \/ b.k = "nan" -> NaN
      [] a.k = "fin" /\ b.k = "fin" -> Fin(a.v + b.v)
      [] a.k = "fin" -> b
      [] b.k = "fin" -> a
      [] a.k = b.k -> a
      [] OTHER -> NaN

\* -a on doubles
FNeg(a) ==
    CASE a.k = "fin" -> Fin(-a.v)
      [] a.k = "pinf" -> NegInf
      [] a.k = "ninf" -> PosInf
      [] OTHER -> a

\* n / d rounded to the nearest integer, symmetric about 0 (d > 0)
Rnd(n, d) ==
    IF n >= 0 THEN (2 * n + d) \div (2 * d) ELSE -((2 * (-n) + d) \div (2 * d))

\* ------------------------------------------------------------ numpy kernels
\* 1000 * cos of a multiple of 15 degrees in 0..90
CosTable == <<1000, 966, 866, 707, 500, 259, 0>>

\* np.cos / np.sin of an angle in degrees (a multiple of 15), times 1000
Cos1000(deg) ==
    LET a == deg % 360
    IN  CASE a <= 90 -> CosTable[(a \div 15) + 1]
          [] a <= 180 -> -CosTable[((180 - a) \div 15) + 1]
          [] a <= 270 -> -CosTable[((a - 180) \div 15) + 1]
          [] OTHER -> CosTable[((360 - a) \div 15) + 1]

Sin1000(deg) == Cos1000(deg + 270)

\* np.arctan2(y, x) in degrees, to the nearest multiple of 15 in 0..345:
\* the direction of the grid best aligned with (x, y), the smallest angle
\* among equally aligned ones; atan2(0, 0) = 0
RECURSIVE BestAligned(_, _, _, _)
BestAligned(x, y, a, best) ==
    IF a >= 360 THEN best
    ELSE BestAligned(x, y, a + 15,
             IF x * Cos1000(a) + y * Sin1000(a) > x * Cos1000(best) + y * Sin1000(best)
             THEN a ELSE best)

Atan2Deg(y, x) == IF x = 0 /\ y = 0 THEN 0 ELSE BestAligned(x, y, 15, 0)

\* floor of the square root, by bisection on lo..hi
RECURSIVE SqrtIn(_, _, _)
SqrtIn(n, lo, hi) ==
    IF lo >= hi THEN lo
    ELSE LET mid == (lo + hi + 1) \div 2
         IN  IF mid * mid <= n THEN SqrtIn(n, mid, hi) ELSE SqrtIn(n, lo, mid - 1)

ISqrt(n) == SqrtIn(n, 0, 46340)

\* np.linalg.norm of a 3-vector
Norm(v) == ISqrt(v[1] * v[1] + v[2] * v[2] + v[3] * v[3])

Dot(u, v) == u[1] * v[1] + u[2] * v[2] + u[3] * v[3]

Sub(u, v) == <<u[1] - v[1], u[2] - v[2], u[3] - v[3]>>

\* 1000 * 10^(i/10) for i = 0..9: the mantissa thresholds of a decibel
DecibelTable == <<1000, 1259, 1585, 1995, 2512, 3163, 3982, 5012, 6310, 7944>>

\* floor(10 * log10(n)) for an integer n >= 1, from the four leading digits
RECURSIVE Log10x10(_)
Log10x10(n) ==
    IF n >= 10000 THEN 10 + Log10x10(n \div 10)
    ELSE IF n < 1000 THEN Log10x10(n * 10) - 10
    ELSE 30 + Cardinality({i \in 2..10 : DecibelTable[i] <= n})

\* ------------------------------------------------------------ link_budget.py
SPEED_OF_LIGHT == 299792458

\* 10 * log10(BOLTZMANN_CONSTANT), in whole dB
BOLTZMANN_dB == -229

\* 4 * pi / wavelength per metre, wavelength = SPEED_OF_LIGHT / frequency_Hz;
\* the frequency is given in units of 0.1 GHz
FourPiOverWavelength(frequency) ==
    (12566 * frequency * 100) \div (SPEED_OF_LIGHT \div 1000)

\* a received power with the losses added instead of subtracted
friis_received_power_loss_added(power_dBW, tx_gain_dBi, rx_gain_dBi, distance_m, frequency) ==
    LET km == distance_m \div 1000
        k == FourPiOverWavelength(frequency)
        path_loss_dB ==
            IF km = 0 \/ k = 0 THEN NegInf
            ELSE Fin(Log10x10(k * k) + Log10x10(km * km) + 60)
        total_loss_dB == FAdd(path_loss_dB, Fin(2 + 3))
    IN  FAdd(Fin(power_dBW + tx_gain_dBi + rx_gain_dBi), total_loss_dB)

\* friis_received_power: received power in dBW.  path_loss_linear is
\* (4 pi d / wavelength)^2 and np.log10(0) is -inf, so a zero distance gives
\* a path loss of -inf dB and a received power of +inf
friis_received_power(power_dBW, tx_gain_dBi, rx_gain_dBi, distance_m, frequency) ==
    LET km == distance_m \div 1000
        k == FourPiOverWavelength(frequency)
        path_loss_dB ==
            IF km = 0 \/ k = 0 THEN NegInf
            ELSE Fin(Log10x10(k * k) + Log10x10(km * km) + 60)
        total_loss_dB == FAdd(path_loss_dB, Fin(2 + 3))
    IN  FAdd(Fin(power_dBW + tx_gain_dBi + rx_gain_dBi), FNeg(total_loss_dB))

\* calculate_snr: the SNR in dB, received power over k * T * B
calculate_snr(received_power_dBW, bandwidth_Hz, system_temperature_K) ==
    LET noise_power_dB ==
            BOLTZMANN_dB + Log10x10(system_temperature_K) + Log10x10(bandwidth_Hz)
    IN  FAdd(received_power_dBW, Fin(-noise_power_dB))

\* the default of required_snr_dB
REQUIRED_SNR_dB == 10

\* a strict threshold
is_link_feasible_strict(snr_dB, required_snr_dB) == FGt(snr_dB, Fin(required_snr_dB))

\* is_link_feasible: snr_dB >= required_snr_dB
is_link_feasible(snr_dB, required_snr_dB) == FGe(snr_dB, Fin(required_snr_dB))

\* a latency without the ground-station penalty
calculate_latency_unpenalised(distance, is_crosslink) ==
    IF ~IsFin(distance) THEN distance
    ELSE Fin(((distance.v \div 1000) * 100000) \div (SPEED_OF_LIGHT \div 1000) + 500)

\* calculate_latency, in units of 0.01 ms: propagation delay plus the
\* processing delay (5 ms), plus 50 ms on a ground link
calculate_latency(distance, is_crosslink) ==
    IF ~IsFin(distance) THEN distance
    ELSE LET propagation_delay == ((distance.v \div 1000) * 100000) \div (SPEED_OF_LIGHT \div 1000)
             processing_delay == IF is_crosslink THEN 500 ELSE 500 + 5000
         IN  Fin(propagation_delay + processing_delay)

\* ---------------------------------------------------------- constellations.py
EARTH_RADIUS_KM == 6371

\* Satellite.__init__; orbit_radius = earth_radius + altitude
Satellite(satellite_id, position, velocity, transmit_power_dBW, orbit_altitude_km) ==
    [satellite_id |-> satellite_id,
     position |-> position,
     velocity |-> velocity,
     transmit_power_dBW |-> transmit_power_dBW,
     antenna_gain_dBi |-> 20,
     frequency_GHz |-> 24,
     orbit_altitude_km |-> orbit_altitude_km,
     orbit_radius |-> EARTH_RADIUS_KM + orbit_altitude_km]

\* GroundStation._lat_lon_to_eci
LatLonToEci(lat_deg, lon_deg, alt_km) ==
    LET r == EARTH_RADIUS_KM + alt_km
        rc == Rnd(r * Cos1000(lat_deg), 1000)
    IN  <<Rnd(rc * Cos1000(lon_deg), 1000),
          Rnd(rc * Sin1000(lon_deg), 1000),
          Rnd(r * Sin1000(lat_deg), 1000)>>

\* GroundStation.__init__; the position is computed once, here
GroundStation(station_id, latitude_deg, longitude_deg, antenna_gain_dBi) ==
    [station_id |-> station_id,
     latitude_deg |-> latitude_deg,
     longitude_deg |-> longitude_deg,
     altitude_m |-> 0,
     antenna_gain_dBi |-> antenna_gain_dBi,
     system_temperature_K |-> 290,
     position |-> LatLonToEci(latitude_deg, longitude_deg, 0)]

\* Satellite.compute_distance / GroundStation.compute_distance, in metres
compute_distance(a, b) == 1000 * Norm(Sub(a.position, b.position))

\* isinstance(other, Satellite) / isinstance(other, GroundStation)
IsSatellite(other) == "satellite_id" \in DOMAIN other
IsGroundStation(other) == "station_id" \in DOMAIN other

\* np.degrees(np.arcsin(dot / (distance * |ground position|))) >= min_elevation_deg
\* for min_elevation_deg a multiple of 15 in -90..90: arcsin is increasing, so
\* the test is dot >= sin(min_elevation_deg) * distance * |ground position|;
\* a zero distance or a zero ground position makes the quotient NaN, and a
\* comparison with NaN is false
ElevationAtLeast(vec_to_sat, ground_position, min_elevation_deg) ==
    LET distance == Norm(vec_to_sat)
    IN  /\ distance # 0
        /\ Norm(ground_position) # 0
        /\ Dot(vec_to_sat, ground_position)
               >= Sin1000(min_elevation_deg) * ((distance * Norm(ground_position)) \div 1000)

\* a satellite on the horizon plane is not counted as visible
GroundStation_is_visible_strict(gs, other, min_elevation_deg) ==
    /\ IsSatellite(other)
    /\ ElevationAtLeast(Sub(other.position, gs.position), gs.position, min_elevation_deg)
    /\ ~ElevationAtLeast(Sub(gs.position, other.position), gs.position, -min_elevation_deg)

\* GroundStation.is_visible(other, min_elevation_deg)
GroundStation_is_visible(gs, other, min_elevation_deg) ==
    /\ IsSatellite(other)
    /\ ElevationAtLeast(Sub(other.position, gs.position), gs.position, min_elevation_deg)

\* Satellite.is_visible(other, min_elevation_deg): TRUE for another
\* Satellite, the elevation test for a GroundStation
Satellite_is_visible(sat, other, min_elevation_deg) ==
    IF IsSatellite(other) THEN TRUE
    ELSE /\ IsGroundStation(other)
         /\ ElevationAtLeast(Sub(sat.position, other.position), other.position,
                             min_elevation_deg)

\* simulation.py line 91: sat1.is_visible(sat2), min_elevation_deg defaulted
SatSeesSat(sat1, sat2) == Satellite_is_visible(sat1, sat2, 0)

\* simulation.py lines 35 and 124: gs.is_visible(sat), min_elevation_deg
\* defaulted
StationSeesSat(gs, sat) == GroundStation_is_visible(gs, sat, 0)

\* angular velocity sqrt(mu / orbit_radius^3), in micro-radians per second
Omega(orbit_radius) ==
    ISqrt((((((398600442 \div orbit_radius) * 10000) \div orbit_radius) * 10000)
           \div orbit_radius) * 10)

\* omega * dt in degrees, to the nearest multiple of 15 (261799 urad)
AngleStep(orbit_radius, dt) ==
    LET w == Omega(orbit_radius) * dt
    IN  15 * (IF w >= 0 THEN Rnd(w, 261799) ELSE -Rnd(-w, 261799))

\* a propagation that puts the satellite in the equatorial plane
update_position_equatorial(sat, dt) ==
    LET omega == Omega(sat.orbit_radius)
        current_angle == Atan2Deg(sat.position[2], sat.position[1])
        new_angle == current_angle + AngleStep(sat.orbit_radius, dt)
        speed == (omega * sat.orbit_radius) \div 1000
    IN  [sat EXCEPT
           !.position = <<Rnd(sat.orbit_radius * Cos1000(new_angle), 1000),
                          Rnd(sat.orbit_radius * Sin1000(new_angle), 1000),
                          0>>,
           !.velocity = <<Rnd(-speed * Sin1000(new_angle), 1000),
                          Rnd(speed * Cos1000(new_angle), 1000),
                          0>>]

\* Satellite.update_position(dt): x and y are put on the circle of radius
\* orbit_radius at the new angle, z is kept, the velocity is the tangent
update_position(sat, dt) ==
    LET omega == Omega(sat.orbit_radius)
        current_angle == Atan2Deg(sat.position[2], sat.position[1])
        new_angle == current_angle + AngleStep(sat.orbit_radius, dt)
        speed == (omega * sat.orbit_radius) \div 1000
    IN  [sat EXCEPT
           !.position = <<Rnd(sat.orbit_radius * Cos1000(new_angle), 1000),
                          Rnd(sat.orbit_radius * Sin1000(new_angle), 1000),
                          sat.position[3]>>,
           !.velocity = <<Rnd(-speed * Sin1000(new_angle), 1000),
                          Rnd(speed * Cos1000(new_angle), 1000),
                          0>>]

\* create_default_constellation: num_satellites evenly spaced on the
\* equatorial circle at altitude_km; main.py then sets the transmit power
create_default_constellation(num_satellites, altitude_km, transmit_power_dBW) ==
    LET orbit_radius == EARTH_RADIUS_KM + altitude_km
        speed == (Omega(orbit_radius) * orbit_radius) \div 1000
        angle(i) == 15 * Rnd(24 * (i - 1), num_satellites)
    IN  [i \in 1..num_satellites |->
            Satellite(i,
                      <<Rnd(orbit_radius * Cos1000(angle(i)), 1000),
                        Rnd(orbit_radius * Sin1000(angle(i)), 1000), 0>>,
                      <<Rnd(-speed * Sin1000(angle(i)), 1000),
                        Rnd(speed * Cos1000(angle(i)), 1000), 0>>,
                      transmit_power_dBW, altitude_km)]

\* positions a TLE gives at load time: an inclined orbit, the first two
\* entries the same object listed twice
TlePosition(i) == IF i <= 2 THEN <<6765, 0, 1200>> ELSE <<0, -6765, -1200>>

\* velocities (m/s) a TLE gives at load time: the orbit is inclined, so the
\* velocity has a z component
TleVelocity(i) == IF i <= 2 THEN <<0, 7500, 1300>> ELSE <<7500, 0, -1300>>

\* tle_to_satellite_objects: position from the TLE, altitude from its norm
tle_to_satellite_objects(num_satellites, transmit_power_dBW) ==
    [i \in 1..num_satellites |->
        Satellite(i, TlePosition(i), TleVelocity(i), transmit_power_dBW,
                  Norm(TlePosition(i)) - EARTH_RADIUS_KM)]

\* --------------------------------------------------------------- simulation.py
VARIABLES
    satellites,            \* ConstellationSimulator.satellites (the caller's objects)
    ground_stations,       \* ConstellationSimulator.ground_stations
    time_steps,            \* argument of run_comparison_simulation
    orbit_period_minutes,  \* argument of run_comparison_simulation
    pc,                    \* where the call stands
    step,                  \* the time-step loop variable of the running policy
    sat_index,             \* the satellite loop variable of the ground-only policy
    gs_results,            \* rows of the ground-only DataFrame
    crosslink_results,     \* rows of the crosslinked DataFrame
    metrics,               \* what calculate_coverage_metrics gave for each stream
    probe,                 \* a direct call of a library function: arguments and answers
    history                \* the satellites as the call found them, and the number of
                           \* update_position calls each has been through since

vars == <<satellites, ground_stations, time_steps, orbit_period_minutes, pc, step,
          sat_index, gs_results, crosslink_results, metrics, probe, history>>

\* dt = (orbit_period_minutes * 60) / time_steps, in seconds (time_steps # 0)
TimeStep(period, steps) ==
    IF steps > 0 THEN (period * 60) \div steps ELSE -((period * 60) \div (-steps))

\* the SNR of the link from sat to a receiver of the given gain and temperature
LinkSnr(sat, receive_gain_dBi, distance_m, system_temperature_K) ==
    calculate_snr(
        friis_received_power(sat.transmit_power_dBW, sat.antenna_gain_dBi,
                             receive_gain_dBi, distance_m, sat.frequency_GHz),
        1000000, system_temperature_K)

\* a selection by distance: the nearest visible station wins
ReplacesBestNearest(snr_dB, distance, best) == FGt(best.best_distance, Fin(distance))

\* a comparison that lets a later station of equal SNR replace the best
ReplacesBestOnTie(snr_dB, distance, best) == FGe(snr_dB, best.best_snr)

\* line 49: a visible station replaces the best one found so far
ReplacesBest(snr_dB, distance, best) == FGt(snr_dB, best.best_snr)

\* a scan that takes the SNR and the station of a better link but keeps the
\* distance of the first link it found
RECURSIVE BestLinkKeepsFirstDistance(_, _, _, _)
BestLinkKeepsFirstDistance(sat, stations, i, best) ==
    IF i > Len(stations) THEN best
    ELSE LET gs == stations[i]
             distance == compute_distance(sat, gs)
             snr_dB == LinkSnr(sat, gs.antenna_gain_dBi, distance, gs.system_temperature_K)
         IN  BestLinkKeepsFirstDistance(sat, stations, i + 1,
                 IF StationSeesSat(gs, sat) /\ ReplacesBest(snr_dB, distance, best)
                 THEN [best_gs |-> Some(gs), best_snr |-> snr_dB,
                       best_distance |->
                           IF IsNone(best.best_gs) THEN Fin(distance) ELSE best.best_distance]
                 ELSE best)

\* lines 30-52: the scan of the ground stations, in list order, from station i
RECURSIVE BestLink(_, _, _, _)
BestLink(sat, stations, i, best) ==
    IF i > Len(stations) THEN best
    ELSE LET gs == stations[i]
             distance == compute_distance(sat, gs)
             snr_dB == LinkSnr(sat, gs.antenna_gain_dBi, distance, gs.system_temperature_K)
         IN  BestLink(sat, stations, i + 1,
                 IF StationSeesSat(gs, sat) /\ ReplacesBest(snr_dB, distance, best)
                 THEN [best_gs |-> Some(gs), best_snr |-> snr_dB,
                       best_distance |-> Fin(distance)]
                 ELSE best)

NoBest == [best_gs |-> None, best_snr |-> NegInf, best_distance |-> PosInf]

\* the scan's running values written out whether or not a station was found
IfFoundUnguarded(found, value, otherwise) == value

\* lines 55-56 and 65-66: "value if best_gs else otherwise"
IfFound(found, value, otherwise) == IF found THEN value ELSE otherwise

\* a latency kept only for a feasible link
RecordedLatencyIfFeasible(is_feasible, latency) == IF is_feasible THEN latency ELSE NaN

\* lines 68, 117 and 149: 'latency_ms': latency, whatever is_feasible is
RecordedLatency(is_feasible, latency) == latency

\* a coverage indicator that counts every record as covered
CoverageOfAnyRecord(is_feasible) == 1

\* lines 69, 118 and 150: 'coverage': 1.0 if is_feasible else 0.0
Coverage(is_feasible) == IF is_feasible THEN 1 ELSE 0

\* lines 54-70: the one row of a satellite at a step of the ground-only policy
GroundOnlyRow(s, dt, sat, stations) ==
    LET best == BestLink(sat, stations, 1, NoBest)
        found == ~IsNone(best.best_gs)
        is_feasible ==
            IfFound(found, is_link_feasible(best.best_snr, REQUIRED_SNR_dB), FALSE)
    IN  [time_step |-> s,
         time_minutes |-> (s * dt) \div 60,
         satellite_id |-> sat.satellite_id,
         constellation_type |-> "ground_station_only",
         link_type |-> "satellite_to_ground",
         ground_station_id |-> IF found THEN Some(best.best_gs.v.station_id) ELSE None,
         distance_m |-> IfFound(found, best.best_distance, NaN),
         snr_dB |-> IfFound(found, best.best_snr, NegInf),
         is_feasible |-> is_feasible,
         latency_ms |->
             RecordedLatency(is_feasible,
                 IfFound(found, calculate_latency(best.best_distance, FALSE), NaN)),
         coverage |-> Coverage(is_feasible)]

\* a row only for a satellite that found a station
GroundOnlyRowsWhenFound(s, dt, sat, stations) ==
    SelectSeq(<<GroundOnlyRow(s, dt, sat, stations)>>,
              LAMBDA r : ~IsNone(r.ground_station_id))

\* a no-link row that leaves out the fields it has no value for
GroundOnlyRowsSparse(s, dt, sat, stations) ==
    LET row == GroundOnlyRow(s, dt, sat, stations)
    IN  IF IsNone(row.ground_station_id)
        THEN <<[f \in DOMAIN row \ {"ground_station_id", "distance_m", "latency_ms"} |->
                   row[f]]>>
        ELSE <<row>>

\* a row whose time_minutes is the elapsed time in seconds
GroundOnlyRowsClockInSeconds(s, dt, sat, stations) ==
    <<[GroundOnlyRow(s, dt, sat, stations) EXCEPT !.time_minutes = s * dt]>>

\* lines 58-70: what one (step, satellite) iteration appends to results
GroundOnlyRows(s, dt, sat, stations) == <<GroundOnlyRow(s, dt, sat, stations)>>

\* lines 92-119: the row of a satellite pair
SatLinkRow(s, dt, sat1, sat2) ==
    LET distance == compute_distance(sat1, sat2)
        snr_dB == LinkSnr(sat1, sat2.antenna_gain_dBi, distance, 290)
        is_feasible == is_link_feasible(snr_dB, REQUIRED_SNR_dB)
    IN  [time_step |-> s,
         time_minutes |-> (s * dt) \div 60,
         satellite_id |-> sat1.satellite_id,
         constellation_type |-> "crosslinked",
         link_type |-> "satellite_to_satellite",
         ground_station_id |-> None,
         distance_m |-> Fin(distance),
         snr_dB |-> snr_dB,
         is_feasible |-> is_feasible,
         latency_ms |-> RecordedLatency(is_feasible, calculate_latency(Fin(distance), TRUE)),
         coverage |-> Coverage(is_feasible)]

\* every other satellite as a partner, in both orders
PartnersBothOrders(i, n) == (1..n) \ {i}

\* line 90: the partners of satellite i, enumerate(self.satellites[i+1:], i+1)
Partners(i, n) == (i + 1)..n

\* lines 89-119: the rows of all pairs, i ascending, then j ascending
RECURSIVE SatLinkRows(_, _, _, _, _)
SatLinkRows(s, dt, sats, i, j) ==
    IF i > Len(sats) THEN << >>
    ELSE IF j > Len(sats) THEN SatLinkRows(s, dt, sats, i + 1, 1)
    ELSE (IF j \in Partners(i, Len(sats)) /\ SatSeesSat(sats[i], sats[j])
          THEN <<SatLinkRow(s, dt, sats[i], sats[j])>> ELSE << >>)
         \o SatLinkRows(s, dt, sats, i, j + 1)

\* lines 125-151: the row of a satellite and a visible ground station
GroundLinkRow(s, dt, sat, gs) ==
    LET distance == compute_distance(sat, gs)
        snr_dB == LinkSnr(sat, gs.antenna_gain_dBi, distance, gs.system_temperature_K)
        is_feasible == is_link_feasible(snr_dB, REQUIRED_SNR_dB)
    IN  [time_step |-> s,
         time_minutes |-> (s * dt) \div 60,
         satellite_id |-> sat.satellite_id,
         constellation_type |-> "crosslinked",
         link_type |-> "satellite_to_ground",
         ground_station_id |-> Some(gs.station_id),
         distance_m |-> Fin(distance),
         snr_dB |-> snr_dB,
         is_feasible |-> is_feasible,
         latency_ms |-> RecordedLatency(is_feasible, calculate_latency(Fin(distance), FALSE)),
         coverage |-> Coverage(is_feasible)]

\* every station of the list
WholeList(stations) == stations

\* line 123: self.ground_stations[:2]
FirstTwo(stations) == SubSeq(stations, 1, IF Len(stations) < 2 THEN Len(stations) ELSE 2)

\* a sentinel row for a station that is not visible
GroundLinkRowsWithSentinel(s, dt, sat, gs) ==
    IF StationSeesSat(gs, sat) THEN <<GroundLinkRow(s, dt, sat, gs)>>
    ELSE <<[GroundLinkRow(s, dt, sat, gs) EXCEPT
               !.ground_station_id = None, !.distance_m = NaN, !.snr_dB = NegInf,
               !.is_feasible = FALSE, !.latency_ms = NaN, !.coverage = 0]>>

\* lines 124-151: what a (satellite, station) pair appends
GroundLinkRows(s, dt, sat, gs) ==
    IF StationSeesSat(gs, sat) THEN <<GroundLinkRow(s, dt, sat, gs)>> ELSE << >>

\* lines 122-151: satellites in list order, for each the first two stations
RECURSIVE CrossGroundRows(_, _, _, _, _, _)
CrossGroundRows(s, dt, sats, stations, i, g) ==
    IF i > Len(sats) THEN << >>
    ELSE IF g > Len(stations) THEN CrossGroundRows(s, dt, sats, stations, i + 1, 1)
    ELSE GroundLinkRows(s, dt, sats[i], stations[g])
         \o CrossGroundRows(s, dt, sats, stations, i, g + 1)

\* ------------------------------------------------- calculate_coverage_metrics
\* a column of the DataFrame
RECURSIVE Column(_, _)
Column(df, field) ==
    IF Len(df) = 0 THEN << >> ELSE <<Head(df)[field]>> \o Column(Tail(df), field)

RECURSIVE SumInt(_)
SumInt(xs) == IF Len(xs) = 0 THEN 0 ELSE Head(xs) + SumInt(Tail(xs))

RECURSIVE SumFloat(_)
SumFloat(xs) == IF Len(xs) = 0 THEN Fin(0) ELSE FAdd(Head(xs), SumFloat(Tail(xs)))

\* a mean that keeps the NaN entries
MeanOperandsKeepNaN(xs) == xs

\* a mean that also drops the infinite entries
MeanOperandsFiniteOnly(xs) == SelectSeq(xs, LAMBDA x : IsFin(x))

\* the values Series.mean() averages: skipna=True drops the NaN entries
MeanOperands(xs) == SelectSeq(xs, LAMBDA x : ~IsNaN(x))

\* Series.mean() of a float column: the sum of the kept values over their
\* number; NaN when nothing is kept; an infinite sum stays infinite
MeanFloat(xs) ==
    LET kept == MeanOperands(xs)
        total == SumFloat(kept)
    IN  IF Len(kept) = 0 THEN NaN
        ELSE IF IsFin(total) THEN Frac(total.v, Len(kept)) ELSE total

RECURSIVE MaxInt(_)
MaxInt(xs) ==
    IF Len(xs) = 1 THEN Head(xs)
    ELSE LET m == MaxInt(Tail(xs)) IN IF Head(xs) > m THEN Head(xs) ELSE m

RECURSIVE MinInt(_)
MinInt(xs) ==
    IF Len(xs) = 1 THEN Head(xs)
    ELSE LET m == MinInt(Tail(xs)) IN IF Head(xs) < m THEN Head(xs) ELSE m

\* the rows that count as feasible in df['is_feasible'].mean()
FeasibleCount(df) == Len(SelectSeq(df, LAMBDA r : r.is_feasible))

\* calculate_coverage_metrics(df); a DataFrame built from no rows has no
\* columns, so df['coverage'] raises KeyError
calculate_coverage_metrics(df) ==
    IF Len(df) = 0 THEN [error |-> "KeyError"]
    ELSE LET n == Len(df)
             coverage_sum == SumInt(Column(df, "coverage"))
             minutes == Column(df, "time_minutes")
             total_time == MaxInt(minutes) - MinInt(minutes)
         IN  [error |-> "none",
              coverage_percentage |-> Frac(100 * coverage_sum, n),
              feasible_percentage |-> Frac(100 * FeasibleCount(df), n),
              average_latency_ms |-> MeanFloat(Column(df, "latency_ms")),
              average_snr_dB |-> MeanFloat(Column(df, "snr_dB")),
              downtime_minutes |-> Frac(total_time * (n - coverage_sum), n),
              uptime_percentage |->
                  IF total_time = 0 THEN NaN
                  ELSE Frac(100 * n * total_time - 100 * total_time * (n - coverage_sum),
                            n * total_time)]

\* ------------------------------------------------------------------- inputs
\* transmit powers (dBW) the caller may configure
TxPowers == {20, -27}

\* ground stations the caller may supply: on the equator under the orbit a
\* site with two equal antennas (first and last entry) and a site with a
\* larger dish, and one station at mid latitude
StationCatalogue ==
    <<[latitude_deg |-> 0, longitude_deg |-> 90, antenna_gain_dBi |-> 30],
      [latitude_deg |-> 0, longitude_deg |-> 105, antenna_gain_dBi |-> 45],
      [latitude_deg |-> 45, longitude_deg |-> 0, antenna_gain_dBi |-> 30],
      [latitude_deg |-> 0, longitude_deg |-> 90, antenna_gain_dBi |-> 30]>>

\* the station lists: n consecutive entries of the catalogue, taken
\* cyclically from entry r + 1
StationLists ==
    {[i \in 1..n |-> StationCatalogue[((r + i - 1) % Len(StationCatalogue)) + 1]] :
        r \in 0..(Len(StationCatalogue) - 1), n \in 0..MaxStations}

BuildStations(kinds) ==
    [i \in 1..Len(kinds) |->
        GroundStation(i, kinds[i].latitude_deg, kinds[i].longitude_deg,
                      kinds[i].antenna_gain_dBi)]

BuildSatellites(builder, n, power) ==
    IF builder = "default" THEN create_default_constellation(n, 500, power)
    ELSE tle_to_satellite_objects(n, power)

OrbitPeriods == {-120, 0, 120}

NoMetrics == [ground_station_only |-> [error |-> "unset"], crosslinked |-> [error |-> "unset"]]

\* no satellite is followed
NoHistory == [at_call |-> << >>, advances |-> << >>]

\* no library function is called directly
NoProbe == [fn |-> "none"]

\* ConstellationSimulator.__init__ and the arguments of the call
Init ==
    /\ \E builder \in {"default", "tle"}, n \in 0..MaxSats, power \in TxPowers :
           satellites = BuildSatellites(builder, n, power)
    /\ \E kinds \in StationLists : ground_stations = BuildStations(kinds)
    /\ time_steps \in -1..MaxSteps
    /\ orbit_period_minutes \in OrbitPeriods
    /\ pc = "call"
    /\ step = 0
    /\ sat_index = 1
    /\ gs_results = << >>
    /\ crosslink_results = << >>
    /\ metrics = NoMetrics
    /\ history = [at_call |-> satellites, advances |-> [i \in 1..Len(satellites) |-> 0]]
    /\ probe = NoProbe

\* -------------------------------------------------------------------- actions
\* simulate_ground_station_only, lines 19-20: dt is a division by time_steps
GsBegin ==
    /\ pc = "call"
    /\ pc' = IF time_steps = 0 THEN "ZeroDivisionError" ELSE "gs_loop"
    /\ step' = 0
    /\ sat_index' = 1
    /\ UNCHANGED <<probe, history, satellites, ground_stations, time_steps, orbit_period_minutes,
                   gs_results, crosslink_results, metrics>>

\* an iteration that evaluates the satellite where it is and advances it after
GsStepEvaluateFirst ==
    /\ pc = "gs_loop"
    /\ step < time_steps
    /\ sat_index <= Len(satellites)
    /\ LET dt == TimeStep(orbit_period_minutes, time_steps)
           sat == update_position(satellites[sat_index], dt)
       IN  /\ satellites' = [satellites EXCEPT ![sat_index] = sat]
           /\ gs_results' = gs_results
                  \o GroundOnlyRows(step, dt, satellites[sat_index], ground_stations)
    /\ IF sat_index = Len(satellites)
       THEN step' = step + 1 /\ sat_index' = 1
       ELSE step' = step /\ sat_index' = sat_index + 1
    /\ history' = [history EXCEPT !.advances[sat_index] = @ + 1]
    /\ UNCHANGED <<probe, ground_stations, time_steps, orbit_period_minutes, pc,
                   crosslink_results, metrics>>

\* lines 25-70: one iteration of the satellite loop: the satellite is
\* advanced, its best station is chosen and its row is appended
GsStep ==
    /\ pc = "gs_loop"
    /\ step < time_steps
    /\ sat_index <= Len(satellites)
    /\ LET dt == TimeStep(orbit_period_minutes, time_steps)
           sat == update_position(satellites[sat_index], dt)
       IN  /\ satellites' = [satellites EXCEPT ![sat_index] = sat]
           /\ gs_results' = gs_results \o GroundOnlyRows(step, dt, sat, ground_stations)
    /\ IF sat_index = Len(satellites)
       THEN step' = step + 1 /\ sat_index' = 1
       ELSE step' = step /\ sat_index' = sat_index + 1
    /\ history' = [history EXCEPT !.advances[sat_index] = @ + 1]
    /\ UNCHANGED <<probe, ground_stations, time_steps, orbit_period_minutes, pc,
                   crosslink_results, metrics>>

\* an end of the ground-only policy that puts the satellites back where the
\* call found them
GsEndResetsSatellites ==
    /\ pc = "gs_loop"
    /\ step >= time_steps \/ Len(satellites) = 0
    /\ pc' = "cl_advance"
    /\ step' = 0
    /\ satellites' = history.at_call
    /\ UNCHANGED <<probe, history, ground_stations, time_steps, orbit_period_minutes,
                   sat_index, gs_results, crosslink_results, metrics>>

\* line 72, then simulate_crosslinked lines 78-79: the ground-only loop is
\* over (range(time_steps) exhausted, or no satellite to iterate over)
GsEnd ==
    /\ pc = "gs_loop"
    /\ step >= time_steps \/ Len(satellites) = 0
    /\ pc' = "cl_advance"
    /\ step' = 0
    /\ UNCHANGED <<probe, history, satellites, ground_stations, time_steps, orbit_period_minutes,
                   sat_index, gs_results, crosslink_results, metrics>>

\* a step that also turns the stations with the Earth, by 15 degrees
ClAdvanceEarthRotates ==
    /\ pc = "cl_advance"
    /\ step < time_steps
    /\ LET dt == TimeStep(orbit_period_minutes, time_steps)
       IN  satellites' = [i \in 1..Len(satellites) |-> update_position(satellites[i], dt)]
    /\ ground_stations' =
           [g \in 1..Len(ground_stations) |->
               [ground_stations[g] EXCEPT
                   !.position = LatLonToEci(ground_stations[g].latitude_deg,
                                            ground_stations[g].longitude_deg + 15, 0)]]
    /\ pc' = "cl_sat_links"
    /\ history' = [history EXCEPT !.advances = [i \in 1..Len(satellites) |-> @[i] + 1]]
    /\ UNCHANGED <<probe, time_steps, orbit_period_minutes, step, sat_index,
                   gs_results, crosslink_results, metrics>>

\* lines 84-86: every satellite is advanced
ClAdvance ==
    /\ pc = "cl_advance"
    /\ step < time_steps
    /\ LET dt == TimeStep(orbit_period_minutes, time_steps)
       IN  satellites' = [i \in 1..Len(satellites) |-> update_position(satellites[i], dt)]
    /\ pc' = "cl_sat_links"
    /\ history' = [history EXCEPT !.advances = [i \in 1..Len(satellites) |-> @[i] + 1]]
    /\ UNCHANGED <<probe, ground_stations, time_steps, orbit_period_minutes, step, sat_index,
                   gs_results, crosslink_results, metrics>>

\* lines 88-119: the satellite-to-satellite rows of the step
ClSatLinks ==
    /\ pc = "cl_sat_links"
    /\ LET dt == TimeStep(orbit_period_minutes, time_steps)
       IN  crosslink_results' =
               crosslink_results \o SatLinkRows(step, dt, satellites, 1, 1)
    /\ pc' = "cl_ground_links"
    /\ UNCHANGED <<probe, history, satellites, ground_stations, time_steps, orbit_period_minutes, step,
                   sat_index, gs_results, metrics>>

\* a ground sub-loop that advances the satellites again before it looks for
\* stations
ClGroundLinksReadvanced ==
    /\ pc = "cl_ground_links"
    /\ LET dt == TimeStep(orbit_period_minutes, time_steps)
           moved == [i \in 1..Len(satellites) |-> update_position(satellites[i], dt)]
       IN  /\ satellites' = moved
           /\ crosslink_results' =
                  crosslink_results
                  \o CrossGroundRows(step, dt, moved, FirstTwo(ground_stations), 1, 1)
    /\ history' = [history EXCEPT !.advances = [i \in 1..Len(satellites) |-> @[i] + 1]]
    /\ pc' = "cl_advance"
    /\ step' = step + 1
    /\ UNCHANGED <<probe, ground_stations, time_steps, orbit_period_minutes,
                   sat_index, gs_results, metrics>>

\* lines 121-151: the satellite-to-ground rows of the step
ClGroundLinks ==
    /\ pc = "cl_ground_links"
    /\ LET dt == TimeStep(orbit_period_minutes, time_steps)
       IN  crosslink_results' =
               crosslink_results
               \o CrossGroundRows(step, dt, satellites, FirstTwo(ground_stations), 1, 1)
    /\ pc' = "cl_advance"
    /\ step' = step + 1
    /\ UNCHANGED <<probe, history, satellites, ground_stations, time_steps, orbit_period_minutes,
                   sat_index, gs_results, metrics>>

\* lines 153 and 166-169: both DataFrames are returned
ClEnd ==
    /\ pc = "cl_advance"
    /\ step >= time_steps
    /\ pc' = "returned"
    /\ UNCHANGED <<probe, history, satellites, ground_stations, time_steps, orbit_period_minutes, step,
                   sat_index, gs_results, crosslink_results, metrics>>

\* a result with the two streams filed under each other's key
run_comparison_result_swapped ==
    [ground_station_only |-> crosslink_results, crosslinked |-> gs_results]

\* lines 166-169: the dictionary run_comparison_simulation returns
run_comparison_result ==
    [ground_station_only |-> gs_results, crosslinked |-> crosslink_results]

\* the caller (main.py 539-540, test_simulation.py 63-64) aggregates each stream
Aggregate ==
    /\ pc = "returned"
    /\ metrics' = [ground_station_only |-> calculate_coverage_metrics(gs_results),
                   crosslinked |-> calculate_coverage_metrics(crosslink_results)]
    /\ pc' = "aggregated"
    /\ UNCHANGED <<probe, history, satellites, ground_stations, time_steps, orbit_period_minutes, step,
                   sat_index, gs_results, crosslink_results>>

Next ==
    \/ GsBegin
    \/ GsStep
    \/ GsEnd
    \/ ClAdvance
    \/ ClSatLinks
    \/ ClGroundLinks
    \/ ClEnd
    \/ Aggregate

Spec == Init /\ [][Next]_vars

\* ------------------------------------------- calculate_coverage_metrics alone
\* rows a caller may hand to calculate_coverage_metrics: feasible links with
\* latencies 10, 20 and 30 ms, the no-link row, and a link found below the
\* feasibility threshold (it keeps its latency)
MetricsRow(snr, feasible, latency) ==
    [time_step |-> 0, time_minutes |-> 0, satellite_id |-> 1,
     constellation_type |-> "ground_station_only", link_type |-> "satellite_to_ground",
     ground_station_id |-> IF snr = NegInf THEN None ELSE Some(1),
     distance_m |-> IF snr = NegInf THEN NaN ELSE Fin(500000),
     snr_dB |-> snr, is_feasible |-> feasible, latency_ms |-> latency,
     coverage |-> IF feasible THEN 1 ELSE 0]

MetricsRows ==
    {MetricsRow(Fin(30), TRUE, Fin(10)), MetricsRow(Fin(20), TRUE, Fin(20)),
     MetricsRow(Fin(10), TRUE, Fin(30)), MetricsRow(NegInf, FALSE, NaN),
     MetricsRow(Fin(5), FALSE, Fin(40))}

MetricsInit ==
    /\ satellites = << >>
    /\ ground_stations = << >>
    /\ time_steps = 1
    /\ orbit_period_minutes = 120
    /\ pc = "returned"
    /\ step = 1
    /\ sat_index = 1
    /\ gs_results \in UNION {[1..n -> MetricsRows] : n \in 0..MaxRows}
    /\ crosslink_results = << >>
    /\ metrics = NoMetrics
    /\ history = NoHistory
    /\ probe = NoProbe

MetricsNext == Aggregate

MetricsSpec == MetricsInit /\ [][MetricsNext]_vars

\* ------------------------------------------------------------ is_visible alone
\* satellite positions (km) a caller may ask about: at the zenith of the
\* station at latitude 0, longitude 0, on its horizon plane, just above and
\* just below it, on the far side of the Earth, on an inclined orbit, over
\* longitude 90 and over latitude 45
ProbePositions ==
    {<<6871, 0, 0>>, <<6371, 2573, 0>>, <<6372, 2570, 0>>, <<6370, 2576, 0>>,
     <<-6871, 0, 0>>, <<6765, 0, 1200>>, <<0, 6871, 0>>, <<4858, 0, 4858>>}

\* the stations asked about: the catalogue and a station at latitude 0,
\* longitude 0
ProbeStations ==
    {StationCatalogue[i] : i \in DOMAIN StationCatalogue}
        \cup {[latitude_deg |-> 0, longitude_deg |-> 0, antenna_gain_dBi |-> 30]}

\* values of min_elevation_deg: the default 0, below it and above it
MinElevations == {-15, 0, 15, 90}

VisibilityInit ==
    /\ satellites = << >>
    /\ ground_stations = << >>
    /\ time_steps = 1
    /\ orbit_period_minutes = 120
    /\ pc = "probe"
    /\ step = 0
    /\ sat_index = 1
    /\ gs_results = << >>
    /\ crosslink_results = << >>
    /\ metrics = NoMetrics
    /\ history = NoHistory
    /\ \E p \in ProbePositions, k \in ProbeStations, e \in MinElevations :
           probe = [fn |-> "is_visible",
                    sat |-> Satellite(1, p, <<0, 7613, 0>>, 20, 500),
                    gs |-> GroundStation(1, k.latitude_deg, k.longitude_deg,
                                         k.antenna_gain_dBi),
                    min_elevation_deg |-> e,
                    station_answer |-> None,
                    satellite_answer |-> None]

\* gs.is_visible(sat, min_elevation_deg)
CallGroundStationIsVisible ==
    /\ probe.fn = "is_visible"
    /\ IsNone(probe.station_answer)
    /\ probe' = [probe EXCEPT !.station_answer =
                     Some(GroundStation_is_visible(probe.gs, probe.sat,
                                                   probe.min_elevation_deg))]
    /\ UNCHANGED <<satellites, ground_stations, time_steps, orbit_period_minutes, pc,
                   step, sat_index, gs_results, crosslink_results, metrics, history>>

\* sat.is_visible(gs, min_elevation_deg)
CallSatelliteIsVisible ==
    /\ probe.fn = "is_visible"
    /\ IsNone(probe.satellite_answer)
    /\ probe' = [probe EXCEPT !.satellite_answer =
                     Some(Satellite_is_visible(probe.sat, probe.gs,
                                               probe.min_elevation_deg))]
    /\ UNCHANGED <<satellites, ground_stations, time_steps, orbit_period_minutes, pc,
                   step, sat_index, gs_results, crosslink_results, metrics, history>>

VisibilityNext ==
    \/ CallGroundStationIsVisible
    \/ CallSatelliteIsVisible

VisibilitySpec == VisibilityInit /\ [][VisibilityNext]_vars

\* -------------------------------------------------------- link budget alone
\* the number of links evaluated for one transmitter and receiver
MaxLinks == 2

\* distances (m) the link budget is asked about, zero included
ProbeDistances ==
    {0, 1000, 100000, 500000, 1299000, 2000000, 6871000, 13742000}

\* receive gains (dBi): a satellite, a station, a station with a larger dish
ProbeReceiveGains == {20, 30, 45}

LinkBudgetInit ==
    /\ satellites = << >>
    /\ ground_stations = << >>
    /\ time_steps = 1
    /\ orbit_period_minutes = 120
    /\ pc = "probe"
    /\ step = 0
    /\ sat_index = 1
    /\ gs_results = << >>
    /\ crosslink_results = << >>
    /\ metrics = NoMetrics
    /\ history = NoHistory
    /\ \E power \in TxPowers, gain \in ProbeReceiveGains :
           probe = [fn |-> "link_budget",
                    sat |-> Satellite(1, <<6871, 0, 0>>, <<0, 7613, 0>>, power, 500),
                    rx_gain_dBi |-> gain,
                    links |-> << >>]

\* friis_received_power, calculate_snr and is_link_feasible for one distance,
\* as simulation.py lines 39-47 and 54 chain them
EvaluateLink ==
    /\ probe.fn = "link_budget"
    /\ Len(probe.links) < MaxLinks
    /\ \E distance \in ProbeDistances :
           LET snr_dB == LinkSnr(probe.sat, probe.rx_gain_dBi, distance, 290)
           IN  probe' = [probe EXCEPT !.links =
                            Append(@, [distance_m |-> distance,
                                       snr_dB |-> snr_dB,
                                       is_feasible |->
                                           is_link_feasible(snr_dB, REQUIRED_SNR_dB)])]
    /\ UNCHANGED <<satellites, ground_stations, time_steps, orbit_period_minutes, pc,
                   step, sat_index, gs_results, crosslink_results, metrics, history>>

LinkBudgetNext == EvaluateLink

LinkBudgetSpec == LinkBudgetInit /\ [][LinkBudgetNext]_vars

\* ---------------------------------------------------------------- properties
NumSats == Len(satellites)

\* simulate_ground_station_only has returned its DataFrame
GsReturned == pc \in {"cl_advance", "cl_sat_links", "cl_ground_links", "returned", "aggregated"}

\* run_comparison_simulation has returned both DataFrames
Returned == pc \in {"returned", "aggregated"}

\* the indices of the rows of df for satellite id at step s
RowsOf(df, s, id) == {k \in DOMAIN df : df[k].time_step = s /\ df[k].satellite_id = id}

\* every satellite's latest ground-only row was computed from the position the
\* satellite still has: during the ground-only loop and until the crosslinked
\* policy first advances the satellites
GsRowsFresh == pc = "gs_loop" \/ (pc = "cl_advance" /\ step = 0)

\* the latest ground-only row of satellite i (when it has one)
HasRow(i) == \E k \in DOMAIN gs_results : gs_results[k].satellite_id = i
LatestRow(i) ==
    LET ks == {k \in DOMAIN gs_results : gs_results[k].satellite_id = i}
    IN  gs_results[CHOOSE k \in ks : \A m \in ks : m <= k]

\* the stations (list indices) visible to satellite i where it is now, and
\* the SNR of its link to station g
VisibleStations(i) ==
    {g \in DOMAIN ground_stations : StationSeesSat(ground_stations[g], satellites[i])}
StationSnr(i, g) ==
    LinkSnr(satellites[i], ground_stations[g].antenna_gain_dBi,
            compute_distance(satellites[i], ground_stations[g]),
            ground_stations[g].system_temperature_K)

\* C1: once simulate_ground_station_only has returned from a call with
\* time_steps = T > 0, its stream holds exactly one row for every pair of a
\* step in 0..T-1 and a satellite, and T * N rows in all, whatever the ground
\* stations are and whether or not any is visible.
C1_OneRowPerStepAndSatellite ==
    (GsReturned /\ time_steps > 0) =>
        /\ Len(gs_results) = time_steps * NumSats
        /\ \A s \in 0..(time_steps - 1), i \in 1..NumSats :
               Cardinality(RowsOf(gs_results, s, satellites[i].satellite_id)) = 1
        /\ \A k \in DOMAIN gs_results :
               /\ gs_results[k].time_step \in 0..(time_steps - 1)
               /\ \E i \in 1..NumSats : gs_results[k].satellite_id = satellites[i].satellite_id

\* a returned ground-only stream of two steps over three satellites holding
\* both a no-link row and a row with a station
C1_Witness ==
    /\ GsReturned /\ time_steps = 2 /\ NumSats = 3
    /\ Len(gs_results) = 6
    /\ \E k \in DOMAIN gs_results : IsNone(gs_results[k].ground_station_id)
    /\ \E k \in DOMAIN gs_results : ~IsNone(gs_results[k].ground_station_id)

\* C3: in the ground-only policy, when at least one station is visible to the
\* satellite at a step, the row names a station that is visible at that step
\* and whose SNR is at least the SNR of every visible station, and carries
\* that SNR; a station that is not visible is never named.
C3_BestVisibleStationSelected ==
    GsRowsFresh =>
        \A i \in 1..NumSats :
            (HasRow(i) /\ VisibleStations(i) # {}) =>
                LET row == LatestRow(i)
                IN  /\ ~IsNone(row.ground_station_id)
                    /\ \E g \in VisibleStations(i) :
                           /\ ground_stations[g].station_id = row.ground_station_id.v
                           /\ row.snr_dB = StationSnr(i, g)
                           /\ \A h \in VisibleStations(i) :
                                  FGe(StationSnr(i, g), StationSnr(i, h))

\* a satellite sees two stations of different SNR, the nearer one has the
\* lower SNR and comes first in the list, and the row names the other
C3_Witness ==
    /\ pc = "gs_loop"
    /\ \E i \in 1..NumSats :
           /\ HasRow(i)
           /\ \E g, h \in VisibleStations(i) :
                  /\ g < h
                  /\ FGt(StationSnr(i, h), StationSnr(i, g))
                  /\ compute_distance(satellites[i], ground_stations[g])
                         < compute_distance(satellites[i], ground_stations[h])
                  /\ LatestRow(i).ground_station_id = Some(ground_stations[h].station_id)

\* C4: in the ground-only policy, when no station is visible to the satellite
\* at a step (the station list may be empty), the step still appends the
\* satellite's row, with ground_station_id None, snr_dB -inf, distance_m NaN,
\* latency_ms NaN, is_feasible false and coverage 0, and the call goes on.
C4_NoLinkRowIsSentinel ==
    /\ (pc = "gs_loop" /\ step >= 1) => \A i \in 1..NumSats : HasRow(i)
    /\ GsRowsFresh =>
           \A i \in 1..NumSats :
               (HasRow(i) /\ VisibleStations(i) = {}) =>
                   LET row == LatestRow(i)
                   IN  /\ row.ground_station_id = None
                       /\ row.snr_dB = NegInf
                       /\ row.distance_m = NaN
                       /\ row.latency_ms = NaN
                       /\ row.is_feasible = FALSE
                       /\ row.coverage = 0
    /\ pc = "ZeroDivisionError" => (time_steps = 0 /\ Len(gs_results) = 0)

\* a satellite with stations in the list but none visible has its sentinel
\* row, and the loop is still running
C4_Witness ==
    /\ pc = "gs_loop" /\ step < time_steps
    /\ Len(ground_stations) >= 2
    /\ \E i \in 1..NumSats :
           /\ HasRow(i)
           /\ VisibleStations(i) = {}
           /\ LatestRow(i).snr_dB = NegInf

\* the satellite-to-satellite rows of step s are all appended
SatLinksDone(s) ==
    \/ pc \in {"cl_advance", "cl_sat_links"} /\ s < step
    \/ pc = "cl_ground_links" /\ s <= step
    \/ Returned /\ s < time_steps

\* the indices of the rows of the crosslinked stream of a link type at step s
CrossRows(s, type) ==
    {k \in DOMAIN crosslink_results :
        crosslink_results[k].time_step = s /\ crosslink_results[k].link_type = type}

\* C2: in simulate_crosslinked every step appends exactly one
\* satellite_to_satellite row per unordered pair of distinct satellites
\* (i < j, the row carrying the id of satellite i): satellite i is the source
\* of N - i rows, N*(N-1)/2 rows per step; so the stream is not empty when
\* N >= 2 and time_steps >= 1.
C2_OneSatLinkRowPerUnorderedPair ==
    /\ \A s \in 0..(time_steps - 1) :
           SatLinksDone(s) =>
               /\ 2 * Cardinality(CrossRows(s, "satellite_to_satellite"))
                      = NumSats * (NumSats - 1)
               /\ \A i \in 1..NumSats :
                      Cardinality({k \in CrossRows(s, "satellite_to_satellite") :
                                      crosslink_results[k].satellite_id
                                          = satellites[i].satellite_id}) = NumSats - i
    /\ (Returned /\ NumSats >= 2 /\ time_steps >= 1) => Len(crosslink_results) > 0

\* three satellites, two steps: the returned stream holds 3 pair rows per step
C2_Witness ==
    /\ Returned /\ NumSats = 3 /\ time_steps = 2
    /\ Cardinality(CrossRows(0, "satellite_to_satellite")) = 3
    /\ Cardinality(CrossRows(1, "satellite_to_satellite")) = 3

\* the satellite-to-ground rows of step `step - 1` of the crosslinked policy
\* are appended and no satellite has moved since
CrossGroundFresh == pc \in {"cl_advance", "returned", "aggregated"} /\ step >= 1

\* the first two stations (list indices) visible to satellite i where it is now
VisibleFirstTwo(i) == {g \in VisibleStations(i) : g <= 2}

\* the crosslinked satellite-to-ground rows of satellite i at step s
CrossGroundRowsOf(s, i) ==
    {k \in CrossRows(s, "satellite_to_ground") :
        crosslink_results[k].satellite_id = satellites[i].satellite_id}

IsSentinel(row) ==
    /\ row.snr_dB = NegInf
    /\ row.distance_m = NaN
    /\ row.latency_ms = NaN
    /\ row.is_feasible = FALSE
    /\ row.coverage = 0

C6_InvalidTimingIsRejected ==
    (time_steps <= 0 \/ orbit_period_minutes <= 0) => pc \in {"call", "ZeroDivisionError"}

\* C7 as claimed: with an empty satellite list or an empty ground-station
\* list the call ends in an error before any simulation step and returns
\* nothing.
C7_EmptyListIsRejected ==
    (Len(satellites) = 0 \/ Len(ground_stations) = 0) => pc \in {"call", "ZeroDivisionError"}

\* snr >= required, said without the comparison of the model
AtLeast(snr, required) == snr.k = "pinf" \/ (snr.k = "fin" /\ snr.v >= required)

\* C8: is_link_feasible(snr, required) is true exactly when snr >= required
\* (equal is feasible, below is not, -inf and NaN are not), and the
\* is_feasible flag of every row of both streams is that test of the row's
\* snr_dB against 10 dB.
C8_FeasibleIffSnrAtLeastThreshold ==
    /\ \A required \in {5, 10}, snr \in {Fin(v) : v \in 3..12} \cup {NegInf, PosInf, NaN} :
           is_link_feasible(snr, required) <=> AtLeast(snr, required)
    /\ \A k \in DOMAIN gs_results :
           gs_results[k].is_feasible <=> AtLeast(gs_results[k].snr_dB, 10)
    /\ \A k \in DOMAIN crosslink_results :
           crosslink_results[k].is_feasible <=> AtLeast(crosslink_results[k].snr_dB, 10)

\* a ground-only stream with a row at exactly 10 dB marked feasible and a
\* no-link row, and a crosslinked stream with a row below 10 dB marked
\* infeasible
C8_Witness ==
    /\ \E k \in DOMAIN gs_results :
           gs_results[k].snr_dB = Fin(10) /\ gs_results[k].is_feasible
    /\ \E k \in DOMAIN gs_results :
           gs_results[k].snr_dB = NegInf /\ ~gs_results[k].is_feasible
    /\ \E k \in DOMAIN crosslink_results :
           /\ IsFin(crosslink_results[k].snr_dB)
           /\ crosslink_results[k].snr_dB.v < 10
           /\ ~crosslink_results[k].is_feasible

\* the indices of the rows of df whose latency is a number
WithLatency(df) == {k \in DOMAIN df : ~IsNaN(df[k].latency_ms)}

\* the sum of field.v over the rows of df with index in ks
RECURSIVE SumOver(_, _, _)
SumOver(df, field, ks) ==
    IF ks = {} THEN 0
    ELSE LET k == CHOOSE m \in ks : TRUE
         IN  df[k][field].v + SumOver(df, field, ks \ {k})

\* the stream of the example: latencies 10, 20, 30 feasible, two no-link rows
ExampleStream ==
    <<MetricsRow(Fin(30), TRUE, Fin(10)), MetricsRow(Fin(20), TRUE, Fin(20)),
      MetricsRow(Fin(10), TRUE, Fin(30)), MetricsRow(NegInf, FALSE, NaN),
      MetricsRow(NegInf, FALSE, NaN)>>

\* C9: calculate_coverage_metrics gives average_latency_ms as the mean over
\* only the rows whose latency_ms is not NaN (NaN when there is none) and
\* feasible_percentage as 100 * feasible rows / all rows, the NaN-latency rows
\* included; the example stream gives 20 and 60.
C9_LatencyMeanSkipsNaN ==
    (pc = "aggregated" /\ Len(gs_results) > 0) =>
        LET m == metrics.ground_station_only
            ks == WithLatency(gs_results)
            feasible == {k \in DOMAIN gs_results : gs_results[k].is_feasible}
        IN  /\ m.error = "none"
            /\ IF ks = {} THEN m.average_latency_ms = NaN
               ELSE /\ m.average_latency_ms.k = "frac"
                    /\ m.average_latency_ms.num * Cardinality(ks)
                           = m.average_latency_ms.den * SumOver(gs_results, "latency_ms", ks)
            /\ m.feasible_percentage.num * Len(gs_results)
                   = m.feasible_percentage.den * 100 * Cardinality(feasible)
            /\ gs_results = ExampleStream =>
                   /\ m.average_latency_ms.num = 20 * m.average_latency_ms.den
                   /\ m.feasible_percentage.num = 60 * m.feasible_percentage.den

\* the example stream has been aggregated
C9_Witness ==
    /\ pc = "aggregated"
    /\ gs_results = ExampleStream
    /\ metrics.ground_station_only.average_latency_ms = Frac(60, 3)
    /\ metrics.ground_station_only.feasible_percentage = Frac(300, 5)

\* the row is a no-link record
IsNoLinkRow(row) == row.snr_dB = NegInf /\ IsNone(row.ground_station_id)

\* C10: calculate_coverage_metrics averages snr_dB over all rows, the -inf
\* no-link rows included, so a stream of the simulator that holds a no-link
\* row has average_snr_dB = -inf; a stream without one has a mean that is not
\* -inf.
C10_SnrMeanKeepsNegInf ==
    pc = "aggregated" =>
        /\ (\E k \in DOMAIN gs_results : IsNoLinkRow(gs_results[k]))
               => metrics.ground_station_only.average_snr_dB = NegInf
        /\ (\E k \in DOMAIN crosslink_results : IsNoLinkRow(crosslink_results[k]))
               => metrics.crosslinked.average_snr_dB = NegInf
        /\ (Len(gs_results) > 0 /\ \A k \in DOMAIN gs_results : ~IsNoLinkRow(gs_results[k]))
               => /\ metrics.ground_station_only.average_snr_dB.k = "frac"
                  /\ metrics.ground_station_only.average_snr_dB.num
                         = SumOver(gs_results, "snr_dB", DOMAIN gs_results)

\* an aggregated ground-only stream that mixes no-link rows with rows of
\* finite SNR, its average SNR being -inf while its latency mean is a number
C10_Witness ==
    /\ pc = "aggregated"
    /\ \E k \in DOMAIN gs_results : IsNoLinkRow(gs_results[k])
    /\ \E k \in DOMAIN gs_results : IsFin(gs_results[k].snr_dB)
    /\ metrics.ground_station_only.average_snr_dB = NegInf
    /\ metrics.ground_station_only.average_latency_ms.k = "frac"

\* the two streams, by the name calculate_coverage_metrics files them under
Stream(name) == IF name = "ground_station_only" THEN gs_results ELSE crosslink_results

StreamNames == {"ground_station_only", "crosslinked"}

\* C11: in every row of both streams the coverage field is 1 when is_feasible
\* is true and 0 when it is false; so for every stream of the simulator that
\* is aggregated, coverage_percentage equals feasible_percentage.
C11_CoverageMirrorsFeasibility ==
    /\ \A name \in StreamNames : \A k \in DOMAIN Stream(name) :
           /\ Stream(name)[k].is_feasible => Stream(name)[k].coverage = 1
           /\ ~Stream(name)[k].is_feasible => Stream(name)[k].coverage = 0
    /\ pc = "aggregated" =>
           \A name \in StreamNames :
               metrics[name].error = "none" =>
                   /\ metrics[name].coverage_percentage = metrics[name].feasible_percentage
                   /\ metrics[name].coverage_percentage.num * Len(Stream(name))
                          = 100 * FeasibleCount(Stream(name))
                                * metrics[name].coverage_percentage.den

\* both streams are aggregated, each holding feasible and infeasible rows
C11_Witness ==
    /\ pc = "aggregated"
    /\ \A name \in StreamNames :
           /\ metrics[name].error = "none"
           /\ \E k \in DOMAIN Stream(name) : Stream(name)[k].coverage = 1
           /\ \E k \in DOMAIN Stream(name) : Stream(name)[k].coverage = 0
           /\ metrics[name].coverage_percentage.num > 0
           /\ metrics[name].coverage_percentage.num
                  < 100 * metrics[name].coverage_percentage.den

\* the row records a link that was found
IsLinkRow(row) == row.link_type = "satellite_to_satellite" \/ ~IsNone(row.ground_station_id)

\* the indices of the rows of df that record a found link
LinkRows(df) == {k \in DOMAIN df : IsLinkRow(df[k])}

\* C12 as claimed: in every row of both streams latency_ms is NaN whenever
\* is_feasible is false.
C12_InfeasibleRowHasNoLatency ==
    \A name \in StreamNames : \A k \in DOMAIN Stream(name) :
        ~Stream(name)[k].is_feasible => IsNaN(Stream(name)[k].latency_ms)

\* C12 as amended: in every row of both streams latency_ms is NaN exactly
\* when no link was found (the no-station row of the ground-only policy); a
\* link that was found carries its latency whether or not it is feasible, so
\* average_latency_ms is the mean over all found links.
C12_LatencyIsNaNOnlyWithoutLink ==
    /\ \A name \in StreamNames : \A k \in DOMAIN Stream(name) :
           LET row == Stream(name)[k]
           IN  /\ IsLinkRow(row) => IsFin(row.latency_ms)
               /\ ~IsLinkRow(row) => (IsNaN(row.latency_ms) /\ ~row.is_feasible)
    /\ pc = "aggregated" =>
           \A name \in StreamNames :
               (metrics[name].error = "none" /\ LinkRows(Stream(name)) # {}) =>
                   /\ metrics[name].average_latency_ms.k = "frac"
                   /\ metrics[name].average_latency_ms.den = Cardinality(LinkRows(Stream(name)))
                   /\ metrics[name].average_latency_ms.num
                          = SumOver(Stream(name), "latency_ms", LinkRows(Stream(name)))

\* an aggregated ground-only stream with a found link below the threshold
\* that carries a latency, a feasible link and a no-link row, the mean taken
\* over the two found links
C12_Witness ==
    /\ pc = "aggregated"
    /\ \E k \in DOMAIN gs_results :
           /\ IsLinkRow(gs_results[k])
           /\ ~gs_results[k].is_feasible
           /\ IsFin(gs_results[k].latency_ms)
    /\ \E k \in DOMAIN gs_results : gs_results[k].is_feasible
    /\ \E k \in DOMAIN gs_results : ~IsLinkRow(gs_results[k])
    /\ metrics.ground_station_only.average_latency_ms.k = "frac"
    /\ metrics.ground_station_only.average_latency_ms.den = Cardinality(LinkRows(gs_results))

\* the ids of the first two stations of the list (of all, if fewer)
FirstTwoIds == {ground_stations[g].station_id : g \in {h \in DOMAIN ground_stations : h <= 2}}

\* C13: every satellite_to_ground row of the crosslinked stream names one of
\* the first two stations of the list (or of the only ones), never a station
\* at list index 3 or more; a (step, satellite, station) triple has at most
\* one such row, so a step has at most 2 * N of them.
C13_CrosslinkedUsesFirstTwoStations ==
    /\ \A k \in DOMAIN crosslink_results :
           crosslink_results[k].link_type = "satellite_to_ground" =>
               /\ ~IsNone(crosslink_results[k].ground_station_id)
               /\ crosslink_results[k].ground_station_id.v \in FirstTwoIds
               /\ \A g \in DOMAIN ground_stations :
                      g >= 3 => crosslink_results[k].ground_station_id.v
                                    # ground_stations[g].station_id
    /\ \A k, m \in DOMAIN crosslink_results :
           (/\ k # m
            /\ crosslink_results[k].link_type = "satellite_to_ground"
            /\ crosslink_results[m].link_type = "satellite_to_ground"
            /\ crosslink_results[k].time_step = crosslink_results[m].time_step
            /\ crosslink_results[k].satellite_id = crosslink_results[m].satellite_id)
               => crosslink_results[k].ground_station_id
                      # crosslink_results[m].ground_station_id
    /\ \A s \in 0..(time_steps - 1) :
           Cardinality(CrossRows(s, "satellite_to_ground")) <= 2 * NumSats

\* three stations, all visible to a satellite after a crosslinked step: the
\* satellite has a row for each of the first two and none for the third,
\* which the ground-only stream does name
C13_Witness ==
    /\ CrossGroundFresh
    /\ Len(ground_stations) = 3
    /\ \E i \in 1..NumSats :
           /\ VisibleStations(i) = {1, 2, 3}
           /\ Cardinality(CrossGroundRowsOf(step - 1, i)) = 2
    /\ \E k \in DOMAIN gs_results :
           gs_results[k].ground_station_id = Some(ground_stations[3].station_id)

\* distance / c, in units of 0.01 ms, for a distance of whole kilometres
PropagationDelay(distance_m) == ((distance_m \div 1000) * 100000) \div (SPEED_OF_LIGHT \div 1000)

\* the rows of both streams that record a link to a ground station, and the
\* satellite-to-satellite rows
GroundLinks(df) == {k \in DOMAIN df : ~IsNone(df[k].ground_station_id)}
SatLinks(df) == {k \in DOMAIN df : df[k].link_type = "satellite_to_satellite"}

\* C14: every row with a ground station, in either stream, has latency =
\* propagation delay + 5 ms + 50 ms, every satellite_to_satellite row has
\* latency = propagation delay + 5 ms, and at any distance found in a row the
\* ground latency is the crosslink latency plus exactly 50 ms.
C14_GroundPenaltyIsFiftyMs ==
    \A name \in StreamNames :
        /\ \A k \in GroundLinks(Stream(name)) :
               LET row == Stream(name)[k]
               IN  /\ row.link_type = "satellite_to_ground"
                   /\ row.latency_ms = Fin(PropagationDelay(row.distance_m.v) + 500 + 5000)
        /\ \A k \in SatLinks(Stream(name)) :
               LET row == Stream(name)[k]
               IN  row.latency_ms = Fin(PropagationDelay(row.distance_m.v) + 500)
        /\ \A k \in LinkRows(Stream(name)) :
               LET distance == Stream(name)[k].distance_m
               IN  calculate_latency(distance, FALSE).v
                       = calculate_latency(distance, TRUE).v + 5000

\* the crosslinked stream holds a ground row and a satellite-to-satellite row
\* of distinct satellites, the ground-only stream a row with a station
C14_Witness ==
    /\ Returned
    /\ GroundLinks(gs_results) # {}
    /\ \E k \in GroundLinks(crosslink_results), m \in SatLinks(crosslink_results) :
           /\ crosslink_results[k].distance_m.v > 0
           /\ crosslink_results[m].distance_m.v > 0
           /\ crosslink_results[k].latency_ms.v > 5500
           /\ crosslink_results[m].latency_ms.v > 500
           /\ crosslink_results[m].latency_ms.v < 5500

\* the elevation of the satellite of the probe over its station, rounded down
\* to a multiple of 15 degrees
ProbeDot == Dot(Sub(probe.sat.position, probe.gs.position), probe.gs.position)
ProbeElevation ==
    LET reach == Norm(Sub(probe.sat.position, probe.gs.position)) * Norm(probe.gs.position)
        below == {e \in {15 * n : n \in -6..6} :
                     ProbeDot >= Sin1000(e) * (reach \div 1000)}
    IN  IF below = {} THEN -90 ELSE CHOOSE e \in below : \A f \in below : f <= e

\* C15: GroundStation.is_visible(sat, m) is true exactly when the elevation
\* of the satellite is at least m; at the default m = 0 exactly when
\* (satellite position - station position) . (station position) >= 0, a
\* satellite on the horizon plane being visible; and Satellite.is_visible(gs,
\* m) gives the same answer for the same pair.
C15_VisibleIffElevationAtLeastMinimum ==
    (probe.fn = "is_visible" /\ ~IsNone(probe.station_answer)) =>
        /\ probe.station_answer.v <=> ProbeElevation >= probe.min_elevation_deg
        /\ probe.min_elevation_deg = 0 => (probe.station_answer.v <=> ProbeDot >= 0)
        /\ ~IsNone(probe.satellite_answer) =>
               probe.satellite_answer.v = probe.station_answer.v

\* both methods were asked at the default minimum about a satellite exactly
\* on the horizon plane of the station, and both answered visible
C15_Witness ==
    /\ probe.fn = "is_visible"
    /\ probe.min_elevation_deg = 0
    /\ ProbeDot = 0
    /\ ~IsNone(probe.station_answer) /\ probe.station_answer.v
    /\ ~IsNone(probe.satellite_answer) /\ probe.satellite_answer.v

\* satellite i has been through update_position at least once
Advanced(i) ==
    \/ pc = "gs_loop" /\ (step >= 1 \/ i < sat_index)
    \/ GsReturned /\ time_steps > 0

\* C16 as claimed: after every update_position call the magnitude of the
\* position of every satellite, whatever builder it comes from and whatever
\* its z component, equals its orbit radius (to the 2 km that the whole-km
\* grid of the model can lose).
C16_PositionMagnitudeIsOrbitRadius ==
    \A i \in 1..NumSats :
        Advanced(i) =>
            /\ Norm(satellites[i].position) - satellites[i].orbit_radius <= 2
            /\ satellites[i].orbit_radius - Norm(satellites[i].position) <= 2

\* what update_position may change of a satellite: x and y of the position,
\* and the velocity, whose z component becomes 0
UpdatedFrom(old, new) ==
    /\ new.position[3] = old.position[3]
    /\ new.velocity[3] = 0
    /\ new.satellite_id = old.satellite_id
    /\ new.transmit_power_dBW = old.transmit_power_dBW
    /\ new.antenna_gain_dBi = old.antenna_gain_dBi
    /\ new.frequency_GHz = old.frequency_GHz
    /\ new.orbit_altitude_km = old.orbit_altitude_km
    /\ new.orbit_radius = old.orbit_radius

\* C17: a step that calls update_position on a satellite (one satellite in
\* an iteration of the ground-only loop, every satellite at the start of a
\* crosslinked step) keeps the z component of its position, sets the z
\* component of its velocity to 0 and keeps its id, transmit power, antenna
\* gain, frequency, altitude and orbit radius; every other satellite and
\* every ground station is left as it was, and no other step changes a
\* satellite.
C17_UpdatePositionFrame ==
    [][/\ ground_stations' = ground_stations
       /\ Len(satellites') = Len(satellites)
       /\ IF pc = "gs_loop" /\ Len(gs_results') > Len(gs_results)
          THEN \A i \in 1..NumSats :
                   IF i = sat_index THEN UpdatedFrom(satellites[i], satellites'[i])
                   ELSE satellites'[i] = satellites[i]
          ELSE IF pc = "cl_advance" /\ pc' = "cl_sat_links"
          THEN \A i \in 1..NumSats : UpdatedFrom(satellites[i], satellites'[i])
          ELSE satellites' = satellites]_vars

\* in the first ground-only step the first satellite, loaded with z = 1200 km
\* and a velocity out of the plane, has been advanced (z kept, velocity z 0)
\* and moved, and the next satellite still has the velocity it was loaded with
C17_Witness ==
    /\ pc = "gs_loop" /\ step = 0 /\ sat_index = 2
    /\ satellites[1].position[3] = 1200
    /\ satellites[1].position # TlePosition(1)
    /\ satellites[1].velocity[3] = 0
    /\ satellites[2].velocity = TleVelocity(2)
    /\ Len(ground_stations) > 0

\* every station is as GroundStation.__init__ made it from its latitude,
\* longitude and altitude
StationsAsConstructed ==
    \A g \in DOMAIN ground_stations :
        LET gs == ground_stations[g]
        IN  /\ gs = GroundStation(gs.station_id, gs.latitude_deg, gs.longitude_deg,
                                  gs.antenna_gain_dBi)
            /\ gs.position = LatLonToEci(gs.latitude_deg, gs.longitude_deg, gs.altitude_m)

\* C18: during a run of both policies no step changes a ground station (id,
\* latitude, longitude, altitude, gain, noise temperature, position), and in
\* every state each station's position is the one computed at construction.
C18_GroundStationsNeverChange ==
    /\ []StationsAsConstructed
    /\ [][ground_stations' = ground_stations]_vars

\* both policies have run two steps over three stations, satellites have
\* moved and links to stations were recorded in both streams
C18_Witness ==
    /\ Returned /\ time_steps = 2
    /\ Len(ground_stations) = 3
    /\ StationsAsConstructed
    /\ GroundLinks(gs_results) # {}
    /\ GroundLinks(crosslink_results) # {}

\* C19: for one transmitter (power, gain, frequency) and one receiver (gain,
\* noise temperature, bandwidth), of two evaluated links the one at the
\* greater or equal distance has the lower or equal SNR, and it is feasible
\* only if the nearer one is.
C19_SnrNonIncreasingInDistance ==
    probe.fn = "link_budget" =>
        \A a, b \in DOMAIN probe.links :
            probe.links[a].distance_m <= probe.links[b].distance_m =>
                /\ FGe(probe.links[a].snr_dB, probe.links[b].snr_dB)
                /\ ~probe.links[a].is_feasible => ~probe.links[b].is_feasible

\* two links of one transmitter: the nearer one feasible, the farther one
\* with a strictly lower SNR and infeasible
C19_Witness ==
    /\ probe.fn = "link_budget"
    /\ Len(probe.links) = 2
    /\ probe.links[1].distance_m < probe.links[2].distance_m
    /\ probe.links[1].distance_m > 0
    /\ probe.links[1].is_feasible
    /\ ~probe.links[2].is_feasible
    /\ FGt(probe.links[1].snr_dB, probe.links[2].snr_dB)

\* C20 as claimed: a link evaluation at distance 0 never yields a record: no
\* row of either stream that records a link has distance 0, nor an infinite
\* or NaN SNR.
C20_ZeroDistanceYieldsNoRecord ==
    \A name \in StreamNames : \A k \in LinkRows(Stream(name)) :
        /\ Stream(name)[k].distance_m # Fin(0)
        /\ IsFin(Stream(name)[k].snr_dB)

\* C21: what run_comparison_simulation returns has exactly the keys
\* 'ground_station_only' and 'crosslinked'; every row of the first stream
\* has constellation_type 'ground_station_only' and link_type
\* 'satellite_to_ground', every row of the second has constellation_type
\* 'crosslinked' and link_type 'satellite_to_satellite' or
\* 'satellite_to_ground', and a satellite_to_satellite row has
\* ground_station_id None.
C21_TwoStreamsWithTheirTags ==
    Returned =>
        LET result == run_comparison_result
        IN  /\ DOMAIN result = {"ground_station_only", "crosslinked"}
            /\ \A k \in DOMAIN result.ground_station_only :
                   /\ result.ground_station_only[k].constellation_type = "ground_station_only"
                   /\ result.ground_station_only[k].link_type = "satellite_to_ground"
            /\ \A k \in DOMAIN result.crosslinked :
                   /\ result.crosslinked[k].constellation_type = "crosslinked"
                   /\ result.crosslinked[k].link_type
                          \in {"satellite_to_satellite", "satellite_to_ground"}
                   /\ result.crosslinked[k].link_type = "satellite_to_satellite"
                          => IsNone(result.crosslinked[k].ground_station_id)

\* the call has returned a ground-only stream with rows and a crosslinked
\* stream with rows of both link types
C21_Witness ==
    /\ Returned
    /\ Len(run_comparison_result.ground_station_only) > 0
    /\ \E k \in DOMAIN run_comparison_result.crosslinked :
           run_comparison_result.crosslinked[k].link_type = "satellite_to_satellite"
    /\ \E k \in DOMAIN run_comparison_result.crosslinked :
           run_comparison_result.crosslinked[k].link_type = "satellite_to_ground"

\* the eleven keys of a record (simulation.py lines 59-69)
RecordFields ==
    {"time_step", "time_minutes", "satellite_id", "constellation_type", "link_type",
     "ground_station_id", "distance_m", "snr_dB", "is_feasible", "latency_ms", "coverage"}

\* C22: every row of both streams, the no-link rows included, has exactly
\* the eleven fields time_step, time_minutes, satellite_id,
\* constellation_type, link_type, ground_station_id, distance_m, snr_dB,
\* is_feasible, latency_ms and coverage.
C22_EveryRecordHasElevenFields ==
    /\ Cardinality(RecordFields) = 11
    /\ \A name \in StreamNames : \A k \in DOMAIN Stream(name) :
           DOMAIN Stream(name)[k] = RecordFields

\* a ground-only stream with a no-link row and a row with a station, and a
\* crosslinked stream with rows of both link types
C22_Witness ==
    /\ \E k \in DOMAIN gs_results : ~IsLinkRow(gs_results[k])
    /\ \E k \in DOMAIN gs_results : IsLinkRow(gs_results[k])
    /\ SatLinks(crosslink_results) # {}
    /\ GroundLinks(crosslink_results) # {}

\* the configuration meets the documented input constraints
ValidRun ==
    /\ time_steps >= 1
    /\ orbit_period_minutes > 0
    /\ NumSats >= 1
    /\ Len(ground_stations) >= 1

\* C23 as claimed: for every stream of a valid run that is aggregated (the
\* single-step run included), uptime_percentage is a defined number between
\* 0 and 100 that equals coverage_percentage.
C23_UptimeIsDefinedPercentage ==
    (pc = "aggregated" /\ ValidRun) =>
        \A name \in StreamNames :
            metrics[name].error = "none" =>
                LET up == metrics[name].uptime_percentage
                    cov == metrics[name].coverage_percentage
                IN  /\ up.k = "frac"
                    /\ up.num * cov.den = cov.num * up.den
                    /\ 0 <= up.num /\ up.num <= 100 * up.den

\* the rows of the crosslinked stream with time_step s, in stream order
CrossStep(s) == SelectSeq(crosslink_results, LAMBDA r : r.time_step = s)

\* the rows a crosslinked step s gives when both of its sub-loops read the
\* satellites as they are now
SnapshotRows(s) ==
    LET dt == TimeStep(orbit_period_minutes, time_steps)
    IN  SatLinkRows(s, dt, satellites, 1, 1)
        \o CrossGroundRows(s, dt, satellites, FirstTwo(ground_stations), 1, 1)

\* the crosslinked policy is evaluating the links of its current step
CrossLinkPhase == pc \in {"cl_sat_links", "cl_ground_links"}

\* C24: in simulate_crosslinked, when the links of step s are evaluated every
\* satellite has been advanced exactly s + 1 times by this policy (once per
\* step, before any link of the step); the steps that produce the records
\* change no satellite and no ground station; and once a step is complete
\* all of its records, satellite_to_satellite and satellite_to_ground, are
\* the ones computed from the one set of positions the satellites then have.
C24_CrosslinkedStepUsesOneSnapshot ==
    /\ [](/\ CrossLinkPhase =>
                \A i \in 1..NumSats : history.advances[i] = time_steps + step + 1
          /\ CrossGroundFresh => CrossStep(step - 1) = SnapshotRows(step - 1))
    /\ [][CrossLinkPhase =>
             /\ satellites' = satellites
             /\ ground_stations' = ground_stations
             /\ history' = history]_vars

\* the second crosslinked step of three satellites is complete, with rows of
\* both link types computed after the satellites moved
C24_Witness ==
    /\ CrossGroundFresh /\ step = 2
    /\ NumSats = 3
    /\ \E k \in DOMAIN CrossStep(1) : CrossStep(1)[k].link_type = "satellite_to_satellite"
    /\ \E k \in DOMAIN CrossStep(1) : CrossStep(1)[k].link_type = "satellite_to_ground"
    /\ CrossStep(1) = SnapshotRows(1)
    /\ \A i \in 1..NumSats : history.advances[i] = time_steps + 2
    /\ satellites # history.at_call

\* the satellite after n calls of update_position(dt)
RECURSIVE AdvanceTimes(_, _, _)
AdvanceTimes(sat, dt, n) ==
    IF n <= 0 THEN sat ELSE AdvanceTimes(update_position(sat, dt), dt, n - 1)

\* the list index of the satellite with the given id
SatIndexOf(id) == CHOOSE i \in 1..NumSats : satellites[i].satellite_id = id

\* the number of steps a policy makes: range(time_steps)
StepsRun == IF time_steps > 0 THEN time_steps ELSE 0

\* row k of the ground-only stream is the row evaluated on its satellite as
\* time_step + 1 calls of update_position from the call-time state leave it
EvaluatedAfterAdvance(k) ==
    LET row == gs_results[k]
        i == SatIndexOf(row.satellite_id)
        dt == TimeStep(orbit_period_minutes, time_steps)
    IN  row = GroundOnlyRow(row.time_step, dt,
                            AdvanceTimes(history.at_call[i], dt, row.time_step + 1),
                            ground_stations)

\* C25: in simulate_ground_station_only the row of a satellite with
\* time_step s is the one evaluated on the satellite as it is after s + 1
\* calls of update_position from the state at call time (checked on the
\* whole stream when the policy returns); inside the loop a satellite has been
\* advanced step + 1 times once its iteration of the step is done and step
\* times before; and when the policy has returned every satellite has been
\* advanced exactly time_steps times.
C25_GroundOnlyAdvancesThenEvaluates ==
    /\ (pc = "cl_advance" /\ step = 0) =>
           \A k \in DOMAIN gs_results : EvaluatedAfterAdvance(k)
    /\ pc = "gs_loop" =>
           \A i \in 1..NumSats :
               history.advances[i] = step + (IF i < sat_index THEN 1 ELSE 0)
    /\ (pc = "cl_advance" /\ step = 0) =>
           \A i \in 1..NumSats : history.advances[i] = StepsRun

\* the ground-only policy has returned after two steps over three
\* satellites, each advanced twice, and a satellite has a station at one
\* step and none at the other
C25_Witness ==
    /\ pc = "cl_advance" /\ step = 0
    /\ time_steps = 2 /\ NumSats = 3
    /\ \A i \in 1..NumSats : history.advances[i] = 2
    /\ \E k, m \in DOMAIN gs_results :
           /\ gs_results[k].satellite_id = gs_results[m].satellite_id
           /\ IsLinkRow(gs_results[k])
           /\ ~IsLinkRow(gs_results[m])

\* C26: run_comparison_simulation runs the ground-only policy and then the
\* crosslinked policy on the same satellite objects without resetting
\* them: when the crosslinked policy starts, every satellite is where
\* time_steps advances from its call-time state leave it; and when the call
\* returns every satellite has been advanced exactly 2 * time_steps times
\* (no times when range(time_steps) is empty) and the simulator's satellites
\* are left in that state.
C26_ComparisonAdvancesTwiceWithoutReset ==
    LET dt == TimeStep(orbit_period_minutes, time_steps)
        After(n) == [i \in 1..NumSats |-> AdvanceTimes(history.at_call[i], dt, n)]
    IN  /\ GsReturned => Len(history.at_call) = NumSats
        /\ (pc = "cl_advance" /\ step = 0) => satellites = After(StepsRun)
        /\ Returned => \A i \in 1..NumSats : history.advances[i] = 2 * StepsRun
        /\ pc = "returned" => satellites = After(2 * StepsRun)

\* a two-step comparison over three satellites has returned, every
\* satellite advanced four times and left away from where the ground-only
\* policy had left it
C26_Witness ==
    /\ pc = "returned"
    /\ time_steps = 2 /\ NumSats = 3
    /\ \A i \in 1..NumSats :
           /\ history.advances[i] = 4
           /\ satellites[i].position #
                  AdvanceTimes(history.at_call[i], TimeStep(orbit_period_minutes, time_steps), 2).position
           /\ satellites[i].position # history.at_call[i].position

\* C27 as claimed: for every run with time_steps > 0, a positive orbit
\* period, at least one satellite and at least one ground station,
\* calculate_coverage_metrics returns a summary for each of the two streams
\* of run_comparison_simulation without raising, the crosslinked stream
\* without any record included.
C27_MetricsOfValidRunNeverRaise ==
    (pc = "aggregated" /\ ValidRun) =>
        \A name \in StreamNames : metrics[name].error = "none"

\* the visible stations (list indices) of satellite i whose SNR no visible
\* station exceeds
TopStations(i) ==
    {g \in VisibleStations(i) :
        \A h \in VisibleStations(i) : FGe(StationSnr(i, g), StationSnr(i, h))}

\* C28: in the ground-only policy the row of a satellite that sees at least
\* one station names the first station of the list among the visible
\* stations of maximal SNR: a later station of the same SNR does not replace
\* it.
C28_FirstOfEqualBestStationsWins ==
    GsRowsFresh =>
        \A i \in 1..NumSats :
            (HasRow(i) /\ VisibleStations(i) # {}) =>
                /\ TopStations(i) # {}
                /\ LET first == CHOOSE g \in TopStations(i) : \A h \in TopStations(i) : g <= h
                   IN  LatestRow(i).ground_station_id = Some(ground_stations[first].station_id)

\* a satellite sees two stations of the same, maximal SNR and its row names
\* the one that comes first in the list
C28_Witness ==
    /\ GsRowsFresh
    /\ \E i \in 1..NumSats :
           /\ HasRow(i)
           /\ \E g, h \in TopStations(i) :
                  /\ g < h
                  /\ StationSnr(i, g) = StationSnr(i, h)
                  /\ LatestRow(i).ground_station_id = Some(ground_stations[g].station_id)
                  /\ ground_stations[h].station_id # ground_stations[g].station_id

\* C29: in the ground-only policy a row that names a station carries that
\* station's link at that step: distance_m is the distance between the
\* satellite and the named station, snr_dB the SNR of that link, latency_ms
\* the ground-link latency of that distance, and is_feasible the threshold
\* test of the recorded snr_dB (so a named station does not make the row
\* feasible).
C29_NamedStationOwnsTheRecordedLink ==
    GsRowsFresh =>
        \A i \in 1..NumSats :
            (HasRow(i) /\ ~IsNone(LatestRow(i).ground_station_id)) =>
                LET row == LatestRow(i)
                IN  /\ \E g \in VisibleStations(i) :
                           LET distance == compute_distance(satellites[i], ground_stations[g])
                           IN  /\ ground_stations[g].station_id = row.ground_station_id.v
                               /\ row.distance_m = Fin(distance)
                               /\ row.snr_dB = StationSnr(i, g)
                               /\ row.latency_ms = calculate_latency(Fin(distance), FALSE)
                    /\ row.is_feasible = is_link_feasible(row.snr_dB, REQUIRED_SNR_dB)
                    /\ row.coverage = (IF row.is_feasible THEN 1 ELSE 0)

\* a satellite sees two stations at different distances and of different
\* SNR, and its row names the second one with that station's distance, SNR
\* and latency, none of them the first station's
C29_Witness ==
    /\ GsRowsFresh
    /\ \E i \in 1..NumSats :
           /\ HasRow(i)
           /\ \E g, h \in VisibleStations(i) :
                  /\ g < h
                  /\ compute_distance(satellites[i], ground_stations[g])
                         # compute_distance(satellites[i], ground_stations[h])
                  /\ StationSnr(i, g) # StationSnr(i, h)
                  /\ LatestRow(i).ground_station_id = Some(ground_stations[h].station_id)
                  /\ LatestRow(i).distance_m
                         = Fin(compute_distance(satellites[i], ground_stations[h]))
                  /\ LatestRow(i).snr_dB = StationSnr(i, h)
                  /\ LatestRow(i).latency_ms
                         # calculate_latency(
                               Fin(compute_distance(satellites[i], ground_stations[g])), FALSE)

\* the time_step values that occur in a stream
StepsOf(df) == {df[k].time_step : k \in DOMAIN df}

\* total_time of calculate_coverage_metrics: the span of time_minutes
ElapsedSpan(df) == MaxInt(Column(df, "time_minutes")) - MinInt(Column(df, "time_minutes"))

====
